---- MODULE Spec2Model ----
(***************************************************************************)
(* State-machine model of esp32_main_controller.cpp: the control loop of   *)
(* the drone bird-deterrent controller (threat scoring, operating state,   *)
(* strobe / audio deterrent outputs, telemetry and timer gates).           *)
(*                                                                         *)
(* One pass of loop() is a sequence of steps, one action per call made by  *)
(* loop(); pc is the position inside the pass.  millis() is the variable   *)
(* now: it is read unchanged by every step of a pass and advances at the   *)
(* delay step by the duration of the whole pass.                           *)
(***************************************************************************)
EXTENDS Integers, Sequences, FiniteSets, TLC

VARIABLES
    pc,                       \* position inside loop()
    ticks,                    \* passes of loop() completed so far
    now,                      \* millis()
    estopPin,                 \* level read on EMERGENCY_STOP in this pass
    emergencyStop,            \* bool emergencyStop
    currentState,             \* SystemState currentState
    currentThreat,            \* ThreatLevel currentThreat
    deterrentActivationTime,  \* unsigned long deterrentActivationTime
    lastSensorUpdate,         \* unsigned long lastSensorUpdate
    lastTelemetryTime,        \* unsigned long lastTelemetryTime
    lastHealthCheck,          \* static unsigned long lastHealthCheck
    birdData,                 \* BirdDetection birdData
    ingested,                 \* what checkBirdDetection did in this pass
    ledc,                     \* duty written to PWM channels 0..3
    intensity,                \* argument of the last setLEDStrobes call
    audioEnable,              \* level written to AUDIO_ENABLE
    audioTone,                \* frequency last written by ledcWriteTone(4, _)
    renderedState,            \* currentState the last controlDeterrents switched on
    activeSince,              \* millis() when currentState last became ACTIVE
    telemetry                 \* last record handed to LoRa

vars == <<pc, ticks, now, estopPin, emergencyStop, currentState, currentThreat,
          deterrentActivationTime, lastSensorUpdate, lastTelemetryTime,
          lastHealthCheck, birdData, ingested, ledc, intensity, audioEnable,
          audioTone, renderedState, activeSince, telemetry>>

(***************************************************************************)
(* Bounds of the model.                                                    *)
(***************************************************************************)
\* Passes of loop() explored.
MaxTicks == 3

\* Durations (ms) of one pass of loop(): the nominal delay(50), a pass slowed
\* by blocking serial / radio I/O, and a long stretch that outlasts the 60 s
\* timeout.
\* All are multiples of 50 ms, the grid of the sine table below.
TickDurations == {50, 250, 61000}

(***************************************************************************)
(* Program constants.                                                      *)
(***************************************************************************)
STATE_STANDBY == "Standby"
STATE_ALERT == "Alert"
STATE_ACTIVE == "Active"
STATE_EMERGENCY == "Emergency"
SystemState == {STATE_STANDBY, STATE_ALERT, STATE_ACTIVE, STATE_EMERGENCY}

THREAT_NONE == "None"
THREAT_LOW == "Low"
THREAT_MEDIUM == "Medium"
THREAT_HIGH == "High"
ThreatLevel == {THREAT_NONE, THREAT_LOW, THREAT_MEDIUM, THREAT_HIGH}

\* Ordinal of a ThreatLevel enumerator.
ThreatOrdinal(t) ==
    CASE t = THREAT_NONE -> 0
      [] t = THREAT_LOW -> 1
      [] t = THREAT_MEDIUM -> 2
      [] t = THREAT_HIGH -> 3

\* Pin levels.
PinLevels == {"LOW", "HIGH"}

SensorPeriod == 100
TelemetryPeriod == 1000
HealthPeriod == 5000
ActiveTimeout == 60000
StrobePeriod == 1000
AlertIntensity == 50
ActiveIntensity == 255

\* a - b on unsigned long timestamps.  millis() wraps after 2^32 ms (49
\* days), far beyond the horizon explored here, and every stored timestamp
\* is an earlier reading of millis(): a >= b and the difference is exact.
ULongSub(a, b) == a - b

(***************************************************************************)
(* Detection messages.                                                     *)
(***************************************************************************)
\* Field values of decoded detection messages.  Distances are metres; the
\* values sit on both sides of each band edge of assessThreatLevel.
Confidences == {-15, 0, 9, 20, 80, 100}
Distances == {40, 49, 50, 99, 100, 150, 199, 200}
Bearings == {0, 90}
SpeciesCodes == {0, 1, 2, 3, 4}

\* A decoded message: the five fields checkBirdDetection copies.
Message(det, conf, dist, bear, spec) ==
    [detected |-> det, confidence |-> conf, distance |-> dist,
     bearing |-> bear, species |-> spec]

\* Every decoded message over the field values above.
AllMessages ==
    {Message(det, conf, dist, bear, spec) :
        det \in BOOLEAN, conf \in Confidences, dist \in Distances,
        bear \in Bearings, spec \in SpeciesCodes}

\* The messages that arrive during the passes of loop(): one or more for
\* each threat level, detected and not.
LoopMessages ==
    {Message(det, conf, dist, 0, spec) :
        det \in BOOLEAN, conf \in {20, 80}, dist \in {40, 150}, spec \in {0, 1}}

\* What rpiSerial holds when checkBirdDetection runs: nothing, a line that
\* deserializeJson rejects, or a decoded message.
NoMessage == [kind |-> "none"]
Malformed == [kind |-> "malformed"]
Decoded(m) == [kind |-> "decoded", msg |-> m]
SerialInputs == {NoMessage, Malformed} \cup {Decoded(m) : m \in LoopMessages}

(***************************************************************************)
(* assessThreatLevel                                                       *)
(***************************************************************************)
\* C++ int division: truncation toward zero.
CDiv(a, b) == IF a >= 0 THEN a \div b ELSE -((-a) \div b)

\* Mutant: the band edges taken inclusive.
DistanceFactor_Inclusive(distance) ==
    IF distance <= 50 THEN 30
    ELSE IF distance <= 100 THEN 20
    ELSE IF distance <= 200 THEN 10
    ELSE 0

DistanceFactor(distance) ==
    IF distance < 50 THEN 30
    ELSE IF distance < 100 THEN 20
    ELSE IF distance < 200 THEN 10
    ELSE 0

ConfidenceFactor(confidence) == CDiv(confidence, 10)

\* Mutant: the eagle and crow weights exchanged.
SpeciesFactor_Swapped(species) ==
    IF species = 1 THEN 10
    ELSE IF species = 2 THEN 15
    ELSE IF species = 3 THEN 20
    ELSE 0

SpeciesFactor(species) ==
    IF species = 1 THEN 20
    ELSE IF species = 2 THEN 15
    ELSE IF species = 3 THEN 10
    ELSE 0

\* int threatScore after the three factors are added.
ThreatScore(bird) ==
    0 + DistanceFactor(bird.distance) + ConfidenceFactor(bird.confidence)
      + SpeciesFactor(bird.species)

\* Mutant: the Low threshold at 10 instead of 15.
ScoreToThreat_LowAt10(threatScore) ==
    IF threatScore >= 50 THEN THREAT_HIGH
    ELSE IF threatScore >= 30 THEN THREAT_MEDIUM
    ELSE IF threatScore >= 10 THEN THREAT_LOW
    ELSE THREAT_NONE

ScoreToThreat(threatScore) ==
    IF threatScore >= 50 THEN THREAT_HIGH
    ELSE IF threatScore >= 30 THEN THREAT_MEDIUM
    ELSE IF threatScore >= 15 THEN THREAT_LOW
    ELSE THREAT_NONE

\* Mutant: the early return for detected == false left out.
assessThreatLevel_NoEarlyReturn(bird) == ScoreToThreat(ThreatScore(bird))

\* The value assessThreatLevel assigns to currentThreat for birdData = bird.
assessThreatLevel(bird) ==
    IF ~bird.detected THEN THREAT_NONE
    ELSE ScoreToThreat(ThreatScore(bird))

(***************************************************************************)
(* setLEDStrobes                                                           *)
(***************************************************************************)
\* Fixed-point scale of the sine values below.
SineScale == 1000000

\* sin(2*pi*k/20) * SineScale, k = 0..19 (sequence index k + 1): the sine
\* every 50 ms of the 1000 ms period.
SineTable ==
    <<0, 309017, 587785, 809017, 951057, 1000000, 951057, 809017, 587785,
      309017, 0, -309017, -587785, -809017, -951057, -1000000, -951057,
      -809017, -587785, -309017>>

\* Table index of timeRad + channel * PI/2 for time = millis(): a quarter
\* period is 5 table steps.
PhaseIndex(time, channel) ==
    ((((time % StrobePeriod) * 20) \div StrobePeriod) + 5 * channel) % 20

\* sin(timeRad + channel * PI/2) * SineScale.
ScaledSine(time, channel) == SineTable[PhaseIndex(time, channel) + 1]

\* Mutant: the product rounded to nearest instead of truncated.
PhaseValues_Rounded(time, channel, level) ==
    {((ScaledSine(time, channel) + SineScale) * level + SineScale)
        \div (2 * SineScale)}

\* The values "int phaseN = (sin(...) + 1.0) * intensity / 2" can take: the
\* float-to-int conversion truncates.  Where the exact product is a whole
\* number (sine 0, 1 or -1) the floating-point sine of the rounded argument
\* may fall just short of it, and the truncation then gives one less; which
\* of the two the build produces depends on its sin() and on the argument.
PhaseValues(time, channel, level) ==
    LET num == (ScaledSine(time, channel) + SineScale) * level
        whole == num \div (2 * SineScale)
    IN  IF num % (2 * SineScale) = 0 /\ whole > 0
        THEN {whole - 1, whole}
        ELSE {whole}

\* setLEDStrobes(level): the four ledcWrite calls.
setLEDStrobes(level) ==
    /\ intensity' = level
    /\ \E p1 \in PhaseValues(now, 0, level), p2 \in PhaseValues(now, 1, level),
          p3 \in PhaseValues(now, 2, level), p4 \in PhaseValues(now, 3, level) :
          ledc' = [ch \in 0..3 |-> <<p1, p2, p3, p4>>[ch + 1]]

(***************************************************************************)
(* setAudioDeterrent                                                       *)
(***************************************************************************)
\* Samples of "2000 + sin(millis() * 0.01) * 500": the sweep's two ends and
\* its centre.
SweepFrequencies == {1500, 2000, 2500}

\* Mutant: disabling leaves the last tone on the channel.
setAudioDeterrent_Latched(enable) ==
    /\ audioEnable' = enable
    /\ IF enable
       THEN audioTone' \in SweepFrequencies
       ELSE audioTone' = audioTone

setAudioDeterrent(enable) ==
    /\ audioEnable' = enable
    /\ IF enable
       THEN audioTone' \in SweepFrequencies
       ELSE audioTone' = 0

(***************************************************************************)
(* Initial state: the globals' initialisers and setup().                   *)
(***************************************************************************)
Init ==
    /\ pc = "emergency"
    /\ ticks = 0
    /\ now = 0
    /\ estopPin = "HIGH"
    /\ emergencyStop = FALSE
    /\ currentState = STATE_STANDBY
    /\ currentThreat = THREAT_NONE
    /\ deterrentActivationTime = 0
    /\ lastSensorUpdate = 0
    /\ lastTelemetryTime = 0
    /\ lastHealthCheck = 0
    /\ birdData = [detected |-> FALSE, confidence |-> 0, distance |-> 0,
                   bearing |-> 0, species |-> 0, timestamp |-> 0]
    /\ ingested = "none"
    /\ ledc = [ch \in 0..3 |-> 0]
    /\ intensity = 0
    /\ audioEnable = FALSE
    /\ audioTone = 0
    /\ renderedState = "unrendered"
    /\ activeSince = 0
    /\ telemetry = {}

(***************************************************************************)
(* loop(): one action per step of a pass.                                  *)
(***************************************************************************)
\* Mutant: emergencyStop follows the pin, so that releasing the input clears
\* it.
loopEmergencyCheck_FollowPin ==
    /\ pc = "emergency"
    /\ ticks < MaxTicks
    /\ \E pin \in PinLevels :
          /\ estopPin' = pin
          /\ emergencyStop' = (pin = "LOW")
          /\ IF pin = "LOW"
             THEN currentState' = STATE_EMERGENCY
             ELSE UNCHANGED currentState
    /\ telemetry' = {}
    /\ pc' = "sensors"
    /\ UNCHANGED <<ticks, now, currentThreat, deterrentActivationTime,
                   lastSensorUpdate, lastTelemetryTime, lastHealthCheck,
                   birdData, ingested, ledc, intensity, audioEnable,
                   audioTone, renderedState, activeSince>>

\* Mutant: the emergency branch sets the state but not the emergencyStop flag.
loopEmergencyCheck_NoLatch ==
    /\ pc = "emergency"
    /\ ticks < MaxTicks
    /\ \E pin \in PinLevels :
          /\ estopPin' = pin
          /\ IF pin = "LOW"
             THEN currentState' = STATE_EMERGENCY
             ELSE UNCHANGED currentState
    /\ telemetry' = {}
    /\ pc' = "sensors"
    /\ UNCHANGED <<ticks, now, emergencyStop, currentThreat,
                   deterrentActivationTime, lastSensorUpdate,
                   lastTelemetryTime, lastHealthCheck, birdData, ingested,
                   ledc, intensity, audioEnable, audioTone, renderedState,
                   activeSince>>

\* if (digitalRead(EMERGENCY_STOP) == LOW) { ... }
loopEmergencyCheck ==
    /\ pc = "emergency"
    /\ ticks < MaxTicks
    /\ \E pin \in PinLevels :
          /\ estopPin' = pin
          /\ IF pin = "LOW"
             THEN emergencyStop' = TRUE /\ currentState' = STATE_EMERGENCY
             ELSE UNCHANGED <<emergencyStop, currentState>>
    /\ telemetry' = {}
    /\ pc' = "sensors"
    /\ UNCHANGED <<ticks, now, currentThreat, deterrentActivationTime,
                   lastSensorUpdate, lastTelemetryTime, lastHealthCheck,
                   birdData, ingested, ledc, intensity, audioEnable,
                   audioTone, renderedState, activeSince>>

\* if (millis() - lastSensorUpdate >= 100) { updateSensorData(); ... }
loopSensorGate ==
    /\ pc = "sensors"
    /\ lastSensorUpdate' =
          IF ULongSub(now, lastSensorUpdate) >= SensorPeriod
          THEN now ELSE lastSensorUpdate
    /\ pc' = "detect"
    /\ UNCHANGED <<ticks, now, estopPin, emergencyStop, currentState,
                   currentThreat, deterrentActivationTime, lastTelemetryTime,
                   lastHealthCheck, birdData, ingested, ledc, intensity,
                   audioEnable, audioTone, renderedState, activeSince,
                   telemetry>>

\* Mutant: assessThreatLevel called before the message is copied into
\* birdData, so that it scores the previous detection.
StoreAndAssess_AssessFirst(m) ==
    /\ currentThreat' = assessThreatLevel(birdData)
    /\ birdData' = [detected |-> m.detected, confidence |-> m.confidence,
                    distance |-> m.distance, bearing |-> m.bearing,
                    species |-> m.species, timestamp |-> now]

\* checkBirdDetection's assignments for a message that decoded.
StoreAndAssess(m) ==
    /\ birdData' = [detected |-> m.detected, confidence |-> m.confidence,
                    distance |-> m.distance, bearing |-> m.bearing,
                    species |-> m.species, timestamp |-> now]
    /\ currentThreat' = assessThreatLevel(birdData')

\* Mutant: the message is stored but assessThreatLevel is not called.
checkBirdDetection_NoAssess ==
    /\ pc = "detect"
    /\ \E input \in SerialInputs :
          IF input.kind = "decoded"
          THEN /\ birdData' = [detected |-> input.msg.detected,
                               confidence |-> input.msg.confidence,
                               distance |-> input.msg.distance,
                               bearing |-> input.msg.bearing,
                               species |-> input.msg.species,
                               timestamp |-> now]
               /\ UNCHANGED currentThreat
               /\ ingested' = "scored"
          ELSE /\ UNCHANGED <<birdData, currentThreat>>
               /\ ingested' = IF input.kind = "malformed"
                              THEN "dropped" ELSE "none"
    /\ pc' = "state"
    /\ UNCHANGED <<ticks, now, estopPin, emergencyStop, currentState,
                   deterrentActivationTime, lastSensorUpdate,
                   lastTelemetryTime, lastHealthCheck, ledc, intensity,
                   audioEnable, audioTone, renderedState, activeSince,
                   telemetry>>

\* Mutant: birdData.timestamp is stamped on every call, outside the tests.
checkBirdDetection_StampAlways ==
    /\ pc = "detect"
    /\ \E input \in SerialInputs :
          IF input.kind = "decoded"
          THEN StoreAndAssess(input.msg) /\ ingested' = "scored"
          ELSE /\ birdData' = [birdData EXCEPT !.timestamp = now]
               /\ UNCHANGED currentThreat
               /\ ingested' = IF input.kind = "malformed"
                              THEN "dropped" ELSE "none"
    /\ pc' = "state"
    /\ UNCHANGED <<ticks, now, estopPin, emergencyStop, currentState,
                   deterrentActivationTime, lastSensorUpdate,
                   lastTelemetryTime, lastHealthCheck, ledc, intensity,
                   audioEnable, audioTone, renderedState, activeSince,
                   telemetry>>

\* Mutant: the "if (!error)" test left out; an undecodable line leaves doc
\* empty, every field reads as its default and the event is scored.
checkBirdDetection_NoErrorTest ==
    /\ pc = "detect"
    /\ \E input \in SerialInputs :
          IF input.kind = "decoded"
          THEN StoreAndAssess(input.msg) /\ ingested' = "scored"
          ELSE IF input.kind = "malformed"
          THEN /\ StoreAndAssess(Message(FALSE, 0, 0, 0, 0))
               /\ ingested' = "dropped"
          ELSE /\ UNCHANGED <<birdData, currentThreat>>
               /\ ingested' = "none"
    /\ pc' = "state"
    /\ UNCHANGED <<ticks, now, estopPin, emergencyStop, currentState,
                   deterrentActivationTime, lastSensorUpdate,
                   lastTelemetryTime, lastHealthCheck, ledc, intensity,
                   audioEnable, audioTone, renderedState, activeSince,
                   telemetry>>

checkBirdDetection ==
    /\ pc = "detect"
    /\ \E input \in SerialInputs :
          IF input.kind = "decoded"
          THEN StoreAndAssess(input.msg) /\ ingested' = "scored"
          ELSE /\ UNCHANGED <<birdData, currentThreat>>
               /\ ingested' = IF input.kind = "malformed"
                              THEN "dropped" ELSE "none"
    /\ pc' = "state"
    /\ UNCHANGED <<ticks, now, estopPin, emergencyStop, currentState,
                   deterrentActivationTime, lastSensorUpdate,
                   lastTelemetryTime, lastHealthCheck, ledc, intensity,
                   audioEnable, audioTone, renderedState, activeSince,
                   telemetry>>

\* The state updateSystemState's switch assigns for a threat level.
StateForThreat(threat) ==
    CASE threat = THREAT_NONE -> STATE_STANDBY
      [] threat = THREAT_LOW -> STATE_ALERT
      [] threat \in {THREAT_MEDIUM, THREAT_HIGH} -> STATE_ACTIVE

\* Mutant: deterrentActivationTime stamped only on entry to ACTIVE, so that
\* the 60 s test of controlDeterrents can succeed.
updateSystemState_StampOnEntry ==
    /\ pc = "state"
    /\ IF emergencyStop
       THEN /\ currentState' = STATE_EMERGENCY
            /\ UNCHANGED deterrentActivationTime
       ELSE /\ currentState' = StateForThreat(currentThreat)
            /\ deterrentActivationTime' =
                  IF /\ currentThreat \in {THREAT_MEDIUM, THREAT_HIGH}
                     /\ currentState # STATE_ACTIVE
                  THEN now ELSE deterrentActivationTime
    /\ activeSince' =
          IF currentState' = STATE_ACTIVE /\ currentState # STATE_ACTIVE
          THEN now ELSE activeSince
    /\ pc' = "deterrents"
    /\ UNCHANGED <<ticks, now, estopPin, emergencyStop, currentThreat,
                   lastSensorUpdate, lastTelemetryTime, lastHealthCheck,
                   birdData, ingested, ledc, intensity, audioEnable,
                   audioTone, renderedState, telemetry>>

\* Mutant: the emergencyStop test left out.
updateSystemState_NoEmergency ==
    /\ pc = "state"
    /\ currentState' = StateForThreat(currentThreat)
    /\ deterrentActivationTime' =
          IF currentThreat \in {THREAT_MEDIUM, THREAT_HIGH}
          THEN now ELSE deterrentActivationTime
    /\ activeSince' =
          IF currentState' = STATE_ACTIVE /\ currentState # STATE_ACTIVE
          THEN now ELSE activeSince
    /\ pc' = "deterrents"
    /\ UNCHANGED <<ticks, now, estopPin, emergencyStop, currentThreat,
                   lastSensorUpdate, lastTelemetryTime, lastHealthCheck,
                   birdData, ingested, ledc, intensity, audioEnable,
                   audioTone, renderedState, telemetry>>

\* Mutant: ACTIVE is left only when the threat falls to NONE.
updateSystemState_Sticky ==
    /\ pc = "state"
    /\ IF emergencyStop
       THEN /\ currentState' = STATE_EMERGENCY
            /\ UNCHANGED deterrentActivationTime
       ELSE /\ currentState' =
                  IF currentState = STATE_ACTIVE /\ currentThreat = THREAT_LOW
                  THEN STATE_ACTIVE ELSE StateForThreat(currentThreat)
            /\ deterrentActivationTime' =
                  IF currentThreat \in {THREAT_MEDIUM, THREAT_HIGH}
                  THEN now ELSE deterrentActivationTime
    /\ activeSince' =
          IF currentState' = STATE_ACTIVE /\ currentState # STATE_ACTIVE
          THEN now ELSE activeSince
    /\ pc' = "deterrents"
    /\ UNCHANGED <<ticks, now, estopPin, emergencyStop, currentThreat,
                   lastSensorUpdate, lastTelemetryTime, lastHealthCheck,
                   birdData, ingested, ledc, intensity, audioEnable,
                   audioTone, renderedState, telemetry>>

updateSystemState ==
    /\ pc = "state"
    /\ IF emergencyStop
       THEN /\ currentState' = STATE_EMERGENCY
            /\ UNCHANGED deterrentActivationTime
       ELSE /\ currentState' = StateForThreat(currentThreat)
            /\ deterrentActivationTime' =
                  IF currentThreat \in {THREAT_MEDIUM, THREAT_HIGH}
                  THEN now ELSE deterrentActivationTime
    /\ activeSince' =
          IF currentState' = STATE_ACTIVE /\ currentState # STATE_ACTIVE
          THEN now ELSE activeSince
    /\ pc' = "deterrents"
    /\ UNCHANGED <<ticks, now, estopPin, emergencyStop, currentThreat,
                   lastSensorUpdate, lastTelemetryTime, lastHealthCheck,
                   birdData, ingested, ledc, intensity, audioEnable,
                   audioTone, renderedState, telemetry>>

\* Strobe intensity and audio enable of each case of controlDeterrents.
IntensityFor(state) ==
    CASE state = STATE_STANDBY -> 0
      [] state = STATE_ALERT -> AlertIntensity
      [] state = STATE_ACTIVE -> ActiveIntensity
      [] state = STATE_EMERGENCY -> 0

AudioFor(state) == state = STATE_ACTIVE

controlDeterrents ==
    /\ pc = "deterrents"
    /\ renderedState' = currentState
    /\ setLEDStrobes(IntensityFor(currentState))
    /\ setAudioDeterrent(AudioFor(currentState))
    /\ currentState' =
          IF /\ currentState = STATE_ACTIVE
             /\ ULongSub(now, deterrentActivationTime) > ActiveTimeout
          THEN STATE_ALERT ELSE currentState
    /\ pc' = "power"
    /\ UNCHANGED <<ticks, now, estopPin, emergencyStop, currentThreat,
                   deterrentActivationTime, lastSensorUpdate,
                   lastTelemetryTime, lastHealthCheck, birdData, ingested,
                   activeSince, telemetry>>

\* monitorPowerSystems writes only powerStatus, which nothing modelled reads.
monitorPowerSystems ==
    /\ pc = "power"
    /\ pc' = "telemetry"
    /\ UNCHANGED <<ticks, now, estopPin, emergencyStop, currentState,
                   currentThreat, deterrentActivationTime, lastSensorUpdate,
                   lastTelemetryTime, lastHealthCheck, birdData, ingested,
                   ledc, intensity, audioEnable, audioTone, renderedState,
                   activeSince, telemetry>>

\* Mutant: the bird fields written whether or not a bird is detected.
TelemetryDoc_AlwaysBird ==
    [timestamp |-> now, state |-> currentState, threat |-> currentThreat]
       @@ [bird_detected |-> TRUE,
           bird_confidence |-> birdData.confidence,
           bird_distance |-> birdData.distance]

\* The JSON document sendTelemetryData builds (the battery, power, altitude
\* and temperature readings are not modelled).
TelemetryDoc ==
    LET base == [timestamp |-> now, state |-> currentState,
                 threat |-> currentThreat]
    IN  IF birdData.detected
        THEN base @@ [bird_detected |-> TRUE,
                      bird_confidence |-> birdData.confidence,
                      bird_distance |-> birdData.distance]
        ELSE base

sendTelemetryData == telemetry' = {TelemetryDoc}

\* Mutant: one timestamp shared by the gates; the telemetry gate measures
\* from lastSensorUpdate.
loopTelemetryGate_SharedStamp ==
    /\ pc = "telemetry"
    /\ IF ULongSub(now, lastSensorUpdate) >= TelemetryPeriod
       THEN sendTelemetryData /\ lastTelemetryTime' = now
       ELSE UNCHANGED <<telemetry, lastTelemetryTime>>
    /\ pc' = "health"
    /\ UNCHANGED <<ticks, now, estopPin, emergencyStop, currentState,
                   currentThreat, deterrentActivationTime, lastSensorUpdate,
                   lastHealthCheck, birdData, ingested, ledc, intensity,
                   audioEnable, audioTone, renderedState, activeSince>>

\* if (millis() - lastTelemetryTime >= 1000) { sendTelemetryData(); ... }
loopTelemetryGate ==
    /\ pc = "telemetry"
    /\ IF ULongSub(now, lastTelemetryTime) >= TelemetryPeriod
       THEN sendTelemetryData /\ lastTelemetryTime' = now
       ELSE UNCHANGED <<telemetry, lastTelemetryTime>>
    /\ pc' = "health"
    /\ UNCHANGED <<ticks, now, estopPin, emergencyStop, currentState,
                   currentThreat, deterrentActivationTime, lastSensorUpdate,
                   lastHealthCheck, birdData, ingested, ledc, intensity,
                   audioEnable, audioTone, renderedState, activeSince>>

performHealthCheck ==
    /\ pc = "health"
    /\ lastHealthCheck' =
          IF ULongSub(now, lastHealthCheck) >= HealthPeriod
          THEN now ELSE lastHealthCheck
    /\ pc' = "delay"
    /\ UNCHANGED <<ticks, now, estopPin, emergencyStop, currentState,
                   currentThreat, deterrentActivationTime, lastSensorUpdate,
                   lastTelemetryTime, birdData, ingested, ledc, intensity,
                   audioEnable, audioTone, renderedState, activeSince,
                   telemetry>>

\* delay(50): the pass ends; millis() has advanced by the pass's duration.
loopDelay ==
    /\ pc = "delay"
    /\ \E d \in TickDurations : now' = now + d
    /\ ticks' = ticks + 1
    /\ pc' = "emergency"
    /\ UNCHANGED <<estopPin, emergencyStop, currentState, currentThreat,
                   deterrentActivationTime, lastSensorUpdate,
                   lastTelemetryTime, lastHealthCheck, birdData, ingested,
                   ledc, intensity, audioEnable, audioTone, renderedState,
                   activeSince, telemetry>>

Next ==
    \/ loopEmergencyCheck
    \/ loopSensorGate
    \/ checkBirdDetection
    \/ updateSystemState
    \/ controlDeterrents
    \/ monitorPowerSystems
    \/ loopTelemetryGate
    \/ performHealthCheck
    \/ loopDelay

Spec == Init /\ [][Next]_vars

(***************************************************************************)
(* The threat scorer on its own: assessThreatLevel applied to every        *)
(* decoded message over the field values of AllMessages.                   *)
(***************************************************************************)
ScoreMessage ==
    /\ \E m \in AllMessages : StoreAndAssess(m)
    /\ ingested' = "scored"
    /\ UNCHANGED <<pc, ticks, now, estopPin, emergencyStop, currentState,
                   deterrentActivationTime, lastSensorUpdate,
                   lastTelemetryTime, lastHealthCheck, ledc, intensity,
                   audioEnable, audioTone, renderedState, activeSince,
                   telemetry>>

ScoreNext == ScoreMessage

SpecScore == Init /\ [][ScoreNext]_vars

(***************************************************************************)
(* Properties.                                                             *)
(***************************************************************************)
\* The steps of a pass that follow controlDeterrents: the outputs are those
\* rendered in this pass, at time now.
AfterRender == pc \in {"power", "telemetry", "health", "delay"}

\* C1: whenever updateSystemState runs with emergencyStop set, it leaves
\* currentState = EMERGENCY and does not make the threat-derived assignment
\* of deterrentActivationTime, whatever the state, threat and timer were.
C1_EmergencyOverride ==
    [][(pc = "state" /\ emergencyStop)
         => /\ currentState' = STATE_EMERGENCY
            /\ deterrentActivationTime' = deterrentActivationTime]_vars

\* C1 witness: the step has run with the stop latched in a pass that scored
\* a High detection.
C1_Witness ==
    /\ pc = "deterrents"
    /\ emergencyStop
    /\ ingested = "scored"
    /\ currentThreat = THREAT_HIGH
    /\ currentState = STATE_EMERGENCY

\* C2 (as claimed): once the state has been ACTIVE for more than 60000 ms
\* with no emergency, the pass that renders ACTIVE demotes it to ALERT.
C2_ActiveTimeoutDemotes ==
    (/\ AfterRender
     /\ ~emergencyStop
     /\ renderedState = STATE_ACTIVE
     /\ ULongSub(now, activeSince) > ActiveTimeout)
        => currentState = STATE_ALERT

\* C3 (as claimed): a pass that finds the state already ACTIVE and ingests no
\* new detection leaves deterrentActivationTime unchanged in
\* updateSystemState.
C3_StaleThreatKeepsEntryTime ==
    [][(/\ pc = "state"
        /\ ~emergencyStop
        /\ currentState = STATE_ACTIVE
        /\ ingested # "scored"
        /\ currentThreat \in {THREAT_MEDIUM, THREAT_HIGH})
         => deterrentActivationTime' = deterrentActivationTime]_vars

\* C4: every message scored with detected = false leaves currentThreat =
\* NONE, whatever its confidence, distance, bearing and species.
C4_NotDetectedIsNone ==
    (ingested = "scored" /\ ~birdData.detected) => currentThreat = THREAT_NONE

\* C4 witness: a not-detected message that would otherwise score High (close
\* eagle, confidence 80) has been scored.
C4_Witness ==
    /\ ingested = "scored"
    /\ ~birdData.detected
    /\ birdData.confidence = 80
    /\ birdData.distance = 40
    /\ birdData.species = 1
    /\ currentThreat = THREAT_NONE

\* The reference score and level of C5, as the claim words them.
C5_RefScore(conf, dist, spec) ==
    (CASE dist < 50 -> 30 [] dist >= 50 /\ dist < 100 -> 20
       [] dist >= 100 /\ dist < 200 -> 10 [] OTHER -> 0)
    + (conf \div 10)
    + (CASE spec = 1 -> 20 [] spec = 2 -> 15 [] spec = 3 -> 10 [] OTHER -> 0)

C5_RefLevel(score) ==
    CASE score >= 50 -> THREAT_HIGH
      [] score >= 30 /\ score < 50 -> THREAT_MEDIUM
      [] score >= 15 /\ score < 30 -> THREAT_LOW
      [] OTHER -> THREAT_NONE

\* C5: for every scored message with detected = true, confidence in 0..100
\* and distance >= 0, currentThreat is the reference level of the reference
\* score; {80, 40, Eagle} gives High and {20, 150, Other} gives None.
C5_MatchesReference ==
    (/\ ingested = "scored"
     /\ birdData.detected
     /\ birdData.confidence \in 0..100
     /\ birdData.distance >= 0)
        => /\ currentThreat =
                 C5_RefLevel(C5_RefScore(birdData.confidence,
                                         birdData.distance, birdData.species))
           /\ (birdData.confidence = 80 /\ birdData.distance = 40
                 /\ birdData.species = 1) => currentThreat = THREAT_HIGH
           /\ (birdData.confidence = 20 /\ birdData.distance = 150
                 /\ birdData.species = 4) => currentThreat = THREAT_NONE

\* C5 witness: a detection on a band edge (distance 50, confidence 9, hawk:
\* 20 + 0 + 15 = 35) has been scored Medium.
C5_Witness ==
    /\ ingested = "scored"
    /\ birdData.detected
    /\ birdData.confidence = 9
    /\ birdData.distance = 50
    /\ birdData.species = 2
    /\ currentThreat = THREAT_MEDIUM

\* Severity rank of a species code: Unknown/Other < Crow < Hawk < Eagle.
C6_Severity(spec) ==
    CASE spec = 1 -> 3 [] spec = 2 -> 2 [] spec = 3 -> 1 [] OTHER -> 0

\* m is at least as threatening as bird in one factor, and equal in the
\* other two.
C6_Dominates(m, bird) ==
    \/ /\ m.distance <= bird.distance
       /\ m.confidence = bird.confidence
       /\ m.species = bird.species
    \/ /\ m.distance = bird.distance
       /\ m.confidence >= bird.confidence
       /\ m.species = bird.species
    \/ /\ m.distance = bird.distance
       /\ m.confidence = bird.confidence
       /\ C6_Severity(m.species) >= C6_Severity(bird.species)

\* C6: for the detection just scored and every detected message that differs
\* from it in one factor only, being closer, more confident or of a more
\* severe species, that message's score and threat level are at least those
\* of the scored detection.
C6_Monotone ==
    (ingested = "scored" /\ birdData.detected)
        => \A m \in AllMessages :
              (m.detected /\ C6_Dominates(m, birdData))
                 => /\ ThreatScore(m) >= ThreatScore(birdData)
                    /\ ThreatOrdinal(assessThreatLevel(m))
                          >= ThreatOrdinal(currentThreat)

\* C6 witness: a crow at 150 m with confidence 20 has been scored (22, Low);
\* the eagle at the same distance and confidence scores Medium.
C6_Witness ==
    /\ ingested = "scored"
    /\ birdData.detected
    /\ birdData.confidence = 20
    /\ birdData.distance = 150
    /\ birdData.species = 3
    /\ currentThreat = THREAT_LOW
    /\ assessThreatLevel([birdData EXCEPT !.species = 1]) = THREAT_MEDIUM

\* C7: with emergencyStop clear, the state updateSystemState leaves depends
\* on currentThreat alone: NONE gives STANDBY, LOW gives ALERT, MEDIUM and
\* HIGH give ACTIVE.
C7_StateFollowsThreat ==
    (pc = "deterrents" /\ ~emergencyStop)
        => /\ currentThreat = THREAT_NONE => currentState = STATE_STANDBY
           /\ currentThreat = THREAT_LOW => currentState = STATE_ALERT
           /\ currentThreat \in {THREAT_MEDIUM, THREAT_HIGH}
                 => currentState = STATE_ACTIVE

\* C7 witness: the previous pass rendered ACTIVE, a message scored in this
\* pass set the threat to LOW, and the step has produced ALERT.
C7_Witness ==
    /\ pc = "deterrents"
    /\ ~emergencyStop
    /\ renderedState = STATE_ACTIVE
    /\ ingested = "scored"
    /\ currentThreat = THREAT_LOW
    /\ currentState = STATE_ALERT

\* C8: the outputs of the last controlDeterrents are intensity 0 with audio
\* off for STANDBY and EMERGENCY (all four channels 0), intensity 50 with
\* audio off for ALERT, intensity 255 with audio on for ACTIVE; and whenever
\* audio is off the tone written is 0.
C8_DeterrentMapping ==
    renderedState # "unrendered"
        => /\ renderedState \in {STATE_STANDBY, STATE_EMERGENCY}
                 => /\ intensity = 0
                    /\ ~audioEnable
                    /\ \A ch \in 0..3 : ledc[ch] = 0
           /\ renderedState = STATE_ALERT => (intensity = 50 /\ ~audioEnable)
           /\ renderedState = STATE_ACTIVE => (intensity = 255 /\ audioEnable)
           /\ audioEnable => renderedState = STATE_ACTIVE
           /\ ~audioEnable => audioTone = 0

\* C8 witness: ALERT has been rendered in a pass after the first, with a
\* strobe channel lit, audio off and the tone at 0.
C8_Witness ==
    /\ renderedState = STATE_ALERT
    /\ AfterRender
    /\ ticks > 0
    /\ intensity = 50
    /\ ledc[1] > 0
    /\ ~audioEnable
    /\ audioTone = 0

\* The exact sine at the quarter-period times: sin(theta + ch * pi/2) for
\* t mod 1000 = 250 * q.
C9_QuarterSine(q, ch) == <<0, 1, 0, -1>>[((q + ch) % 4) + 1]

C9_AtQuarter == AfterRender /\ (now % 1000) \in {0, 250, 500, 750}

\* C9 (as claimed): at the quarter-period times channel ch holds
\* round((sin + 1) / 2 * I), half rounded up, and lies in 0..255.
C9_RoundedPhase ==
    C9_AtQuarter
        => \A ch \in 0..3 :
              LET twice == (C9_QuarterSine((now % 1000) \div 250, ch) + 1)
                              * intensity
              IN  /\ ledc[ch] = (twice + 1) \div 2
                  /\ ledc[ch] \in 0..255

\* C9 (amended): channel ch holds the truncation of (sin + 1) * I / 2 as
\* evaluated in floating point.  At the quarter-period times that is the
\* floor of the exact value, or one less where the exact value is a positive
\* whole number; every value written lies in 0..255; for I = 255 at t = 0
\* channel 0 holds 127.
C9_TruncatedPhase ==
    /\ \A ch \in 0..3 : ledc[ch] \in 0..255
    /\ C9_AtQuarter
          => \A ch \in 0..3 :
                LET twice == (C9_QuarterSine((now % 1000) \div 250, ch) + 1)
                                * intensity
                IN  ledc[ch] \in
                       (IF twice % 2 = 0 /\ twice > 0
                        THEN {(twice \div 2) - 1, twice \div 2}
                        ELSE {twice \div 2})
    /\ (C9_AtQuarter /\ now % 1000 = 0 /\ intensity = 255) => ledc[0] = 127

\* C9 witness: ACTIVE rendered at t mod 1000 = 0 with channel 0 at 127.
C9_Witness ==
    /\ C9_AtQuarter
    /\ now % 1000 = 0
    /\ intensity = 255
    /\ ledc[0] = 127
    /\ ledc[3] = 0

\* C10: in a pass that sampled the emergency stop asserted, the outputs
\* rendered in that pass are intensity 0, all channels 0 and audio off,
\* whatever the state was before and whatever message arrived in the pass.
C10_EmergencyPreempts ==
    (AfterRender /\ estopPin = "LOW")
        => /\ renderedState = STATE_EMERGENCY
           /\ intensity = 0
           /\ \A ch \in 0..3 : ledc[ch] = 0
           /\ ~audioEnable
           /\ audioTone = 0

\* C10 witness: after the first pass, the stop was sampled asserted in a
\* pass that also scored a High detection, and the outputs are off.
C10_Witness ==
    /\ pc = "power"
    /\ estopPin = "LOW"
    /\ ingested = "scored"
    /\ birdData.timestamp = now
    /\ currentThreat = THREAT_HIGH
    /\ ticks > 0
    /\ intensity = 0
    /\ ~audioEnable

\* C11: birdData and currentThreat change only in the checkBirdDetection
\* step of a pass that ingested a decoded message; that step stores the
\* message stamped with millis() and sets currentThreat to its score, once;
\* every other step, of every pass, leaves both unchanged.
C11_ScoredOnlyOnNewMessage ==
    [][/\ ~(pc = "detect" /\ ingested' = "scored")
             => UNCHANGED <<birdData, currentThreat>>
       /\ (pc = "detect" /\ ingested' = "scored")
             => /\ birdData'.timestamp = now
                /\ currentThreat' = assessThreatLevel(birdData')
                /\ pc' = "state"]_vars

\* C11 witness: a pass without a message has reached the state machine step
\* with the detection of an earlier pass and its High threat still stored.
C11_Witness ==
    /\ pc = "state"
    /\ ingested = "none"
    /\ birdData.detected
    /\ birdData.timestamp < now
    /\ currentThreat = THREAT_HIGH

\* C12: the checkBirdDetection step that drops an undecodable message
\* changes nothing but the position in the pass: birdData (timestamp
\* included), currentThreat and currentState are as before, exactly as in
\* the step of a pass in which no message arrived; and the pass ends in the
\* state that the stored threat and the emergency flag give without it.
C12_MalformedDropped ==
    [][/\ (pc = "detect" /\ ingested' = "dropped")
         => /\ pc' = "state"
            /\ UNCHANGED <<ticks, now, estopPin, emergencyStop, currentState,
                           currentThreat, deterrentActivationTime,
                           lastSensorUpdate, lastTelemetryTime,
                           lastHealthCheck, birdData, ledc, intensity,
                           audioEnable, audioTone, renderedState,
                           activeSince, telemetry>>
       /\ (pc' = "delay" /\ ingested' = "dropped")
             => currentState' =
                   (IF emergencyStop' THEN STATE_EMERGENCY
                    ELSE CASE currentThreat' = THREAT_NONE -> STATE_STANDBY
                           [] currentThreat' = THREAT_LOW -> STATE_ALERT
                           [] OTHER -> STATE_ACTIVE)]_vars

\* C12 witness: a pass dropped a message while a Medium detection of an
\* earlier pass is stored, and ended ACTIVE as it would have without it.
C12_Witness ==
    /\ pc = "delay"
    /\ ingested = "dropped"
    /\ birdData.detected
    /\ birdData.timestamp < now
    /\ currentThreat = THREAT_MEDIUM
    /\ currentState = STATE_ACTIVE

\* Record r carries the three optional bird fields.
HasBirdFields(r) ==
    {"bird_detected", "bird_confidence", "bird_distance"} \subseteq DOMAIN r

\* C13: every telemetry record carries the current state and threat level,
\* and carries bird_detected / bird_confidence / bird_distance exactly when
\* the stored detection has detected = true, with the confidence and
\* distance of that detection.
C13_TelemetryFields ==
    \A r \in telemetry :
       /\ r.state = currentState
       /\ r.threat = currentThreat
       /\ pc # "emergency" => r.timestamp = now
       /\ HasBirdFields(r) <=> birdData.detected
       /\ ~HasBirdFields(r) => DOMAIN r = {"timestamp", "state", "threat"}
       /\ HasBirdFields(r)
             => /\ r.bird_detected = TRUE
                /\ r.bird_confidence = birdData.confidence
                /\ r.bird_distance = birdData.distance

\* C13 witness: a record with the bird fields of a detection stored in an
\* earlier pass (confidence 80, distance 150) has been emitted.
C13_Witness ==
    \E r \in telemetry :
       /\ HasBirdFields(r)
       /\ birdData.timestamp < now
       /\ r.bird_confidence = 80
       /\ r.bird_distance = 150

C15_IndependentGates ==
    [][/\ pc = "telemetry"
             => /\ (telemetry' # {})
                      <=> (now - lastTelemetryTime >= 1000)
                /\ lastTelemetryTime' =
                      (IF now - lastTelemetryTime >= 1000
                       THEN now ELSE lastTelemetryTime)
                /\ \A r \in telemetry' :
                      r.timestamp - lastTelemetryTime >= 1000
                /\ UNCHANGED <<lastSensorUpdate, lastHealthCheck>>
       /\ pc = "sensors"
             => /\ lastSensorUpdate' =
                      (IF now - lastSensorUpdate >= 100
                       THEN now ELSE lastSensorUpdate)
                /\ UNCHANGED <<lastTelemetryTime, lastHealthCheck>>
       /\ pc = "health"
             => /\ lastHealthCheck' =
                      (IF now - lastHealthCheck >= 5000
                       THEN now ELSE lastHealthCheck)
                /\ UNCHANGED <<lastTelemetryTime, lastSensorUpdate>>
       /\ pc \notin {"telemetry", "sensors", "health"}
             => UNCHANGED <<lastTelemetryTime, lastSensorUpdate,
                            lastHealthCheck>>]_vars

\* C15 witness: the pass 250 ms after one in which all three gates fired has
\* refreshed the sensors, and has neither emitted telemetry nor run the
\* health check.
C15_Witness ==
    /\ pc = "delay"
    /\ lastTelemetryTime > 0
    /\ lastSensorUpdate = now
    /\ lastTelemetryTime = now - 250
    /\ lastHealthCheck = now - 250
    /\ telemetry = {}

\* The level the message stored in birdData scores, by the reference of C5.
C16_EventLevel ==
    IF birdData.detected
    THEN C5_RefLevel(C5_RefScore(birdData.confidence, birdData.distance,
                                 birdData.species))
    ELSE THREAT_NONE

\* C16: in a pass that ingested a message, with no emergency, the outputs
\* rendered in that pass are those of the new message: intensity 255 with
\* audio on if it scores Medium or High, intensity 50 with audio off if it
\* scores Low, and all channels 0 with audio off if it scores None, as every
\* message with detected = false does.
C16_RenderReflectsNewEvent ==
    (AfterRender /\ ingested = "scored" /\ ~emergencyStop)
        => /\ birdData.timestamp = now
           /\ C16_EventLevel \in {THREAT_MEDIUM, THREAT_HIGH}
                 => /\ renderedState = STATE_ACTIVE
                    /\ intensity = 255
                    /\ audioEnable
           /\ C16_EventLevel = THREAT_LOW
                 => /\ renderedState = STATE_ALERT
                    /\ intensity = 50
                    /\ ~audioEnable
           /\ C16_EventLevel = THREAT_NONE
                 => /\ renderedState = STATE_STANDBY
                    /\ intensity = 0
                    /\ \A ch \in 0..3 : ledc[ch] = 0
                    /\ ~audioEnable

\* C16 witness: a pass after the first ingested a High detection and has
\* rendered intensity 255 with audio on.
C16_Witness ==
    /\ pc = "power"
    /\ now > 0
    /\ ingested = "scored"
    /\ ~emergencyStop
    /\ birdData.timestamp = now
    /\ C16_EventLevel = THREAT_HIGH
    /\ intensity = 255
    /\ audioEnable

\* C17: the step that samples the emergency stop asserted sets emergencyStop
\* and the state EMERGENCY; and from any state with emergencyStop set, every
\* step of this and of every later pass leaves emergencyStop set and the
\* state EMERGENCY, whatever is ingested and whatever the pin reads.
C17_LatchAbsorbing ==
    [][/\ (pc = "emergency" /\ estopPin' = "LOW")
             => (emergencyStop' /\ currentState' = STATE_EMERGENCY)
       /\ emergencyStop
             => (emergencyStop' /\ currentState' = STATE_EMERGENCY)]_vars

\* C17 witness: a pass that read the input released and scored a High
\* detection has ended with the latch still set and the state EMERGENCY.
C17_Witness ==
    /\ pc = "delay"
    /\ estopPin = "HIGH"
    /\ emergencyStop
    /\ ingested = "scored"
    /\ birdData.timestamp = now
    /\ currentThreat = THREAT_HIGH
    /\ currentState = STATE_EMERGENCY
    /\ renderedState = STATE_EMERGENCY

\* C18: whenever currentThreat is not NONE the stored detection has
\* detected = true, so every telemetry record with threat Low, Medium or
\* High carries the bird fields.
C18_ThreatImpliesDetected ==
    /\ currentThreat # THREAT_NONE => birdData.detected
    /\ \A r \in telemetry : r.threat # THREAT_NONE => HasBirdFields(r)

\* C18 witness: a record with threat Medium and the bird fields of a
\* detection at 40 m has been emitted.
C18_Witness ==
    \E r \in telemetry :
       /\ r.threat = THREAT_MEDIUM
       /\ HasBirdFields(r)
       /\ r.bird_distance = 40
       /\ birdData.detected

\* Nothing has disturbed the system: no emergency, threat NONE, state
\* STANDBY, all four strobe channels at 0 and audio disabled.
C19_Quiet ==
    /\ ~emergencyStop
    /\ currentThreat = THREAT_NONE
    /\ currentState = STATE_STANDBY
    /\ intensity = 0
    /\ \A ch \in 0..3 : ledc[ch] = 0
    /\ ~audioEnable

\* The step samples the emergency stop asserted, or ingests a detection
\* whose reference score is 15 or more.
C19_Disturbing ==
    \/ pc = "emergency" /\ estopPin' = "LOW"
    \/ /\ pc = "detect"
       /\ ingested' = "scored"
       /\ birdData'.detected
       /\ C5_RefScore(birdData'.confidence, birdData'.distance,
                      birdData'.species) >= 15

\* C19: the system starts in STANDBY with threat NONE and all outputs off,
\* and every step that neither samples the emergency stop asserted nor
\* ingests a detection scoring 15 or more keeps it so; each render of such
\* a pass is the STANDBY one.  Hence it holds along every run without
\* emergency and without such a detection.
C19_QuietStaysStandby ==
    /\ C19_Quiet
    /\ [][(C19_Quiet /\ ~C19_Disturbing)
            => /\ C19_Quiet'
               /\ pc = "deterrents" => renderedState' = STATE_STANDBY]_vars

\* C19 witness: the third pass has rendered STANDBY, all outputs off, after
\* ingesting a detection that scores 12 (confidence 20 at 150 m, unknown
\* species).
C19_Witness ==
    /\ pc = "delay"
    /\ ticks = 2
    /\ C19_Quiet
    /\ renderedState = STATE_STANDBY
    /\ ingested = "scored"
    /\ birdData.timestamp = now
    /\ birdData.detected
    /\ birdData.confidence = 20
    /\ birdData.distance = 150
    /\ birdData.species = 0

====
